---- MODULE Spec2Model ----
(***************************************************************************)
(* Model of the two collection compilers of wgu-competencies/              *)
(* Project-Management: tools/compile-collection.mjs (skills, src/unnamed/  *)
(* part_000) and tools/compile-competencies.mjs (competencies,             *)
(* src/unnamed/part_001 lines 123-348).                                    *)
(*                                                                         *)
(* The state is the file system the tools work on (metadata file, records  *)
(* directory, artifact file) plus the observable outcome of the last       *)
(* invocation.  One action, Invoke, is a whole run of main(); EditRecord   *)
(* is the human author changing one source record between two runs.        *)
(***************************************************************************)
EXTENDS Naturals, Integers, Sequences, FiniteSets, TLC

VARIABLES
    cfg,        \* the tool and arguments used: [variant, sortBy]
    meta,       \* content of the metadata file (--meta)
    dirExists,  \* does the records root (--skills-dir / --competencies-dir) exist
    store,      \* records root: path |-> file content ("absent" when no such file)
    artifact,   \* the artifact file (--out): [st, text]
    last,       \* outcome of the last invocation
    prev,       \* the invocation before the last one: [mode, exit, text], and
                \* edited: a source record was edited between it and the last
    pre,        \* the artifact file as it was when the last invocation started
    edit,       \* the last source edit: [path, old] (path "" when none)
    changed,    \* a source record was edited since the last invocation
    edits,      \* number of source edits so far
    runs,       \* number of invocations so far
    argv,       \* the arguments of the last invocation (process.argv from index 2)
    io          \* the file operations of the last invocation, in order: [op, path]

vars == <<cfg, meta, dirExists, store, artifact, last, prev, pre, edit, changed, edits, runs, argv, io>>

(***************************************************************************)
(* Bounds of the model.                                                    *)
(***************************************************************************)
MaxFiles == 2   \* number of *.json path slots under the records root
MaxRuns == 2    \* invocations per behaviour
MaxEdits == 1   \* source edits per behaviour

(***************************************************************************)
(* JSON values.  A value is a string, a language map {"en-US": s}, or      *)
(* JavaScript's undefined (the result of reading an absent property).      *)
(* An object is the sequence of its fields, in insertion order.            *)
(***************************************************************************)
Str(x) == [t |-> "str", s |-> x]
LangMap(x) == [t |-> "map", s |-> x]
Undefined == [t |-> "undef", s |-> ""]
Fld(key, val) == [k |-> key, v |-> val]

\* a sequence given as a function on 1..n, as an explicit tuple
AsSeq(f) == f \o <<>>

\* `key in obj`
HasKey(obj, key) == \E i \in 1..Len(obj) : obj[i].k = key

\* obj[key]
Prop(obj, key) ==
    IF HasKey(obj, key)
    THEN obj[CHOOSE i \in 1..Len(obj) : obj[i].k = key].v
    ELSE Undefined

\* obj[key] = val on an object: an existing key keeps its place, a new key
\* is appended
SetProp(obj, key, val) ==
    IF HasKey(obj, key)
    THEN AsSeq([i \in 1..Len(obj) |-> IF obj[i].k = key THEN Fld(key, val) ELSE obj[i]])
    ELSE Append(obj, Fld(key, val))

\* !v
Falsy(v) == v.t = "undef" \/ (v.t = "str" /\ v.s = "")

\* a || b
OrElse(a, b) == IF Falsy(a) THEN b ELSE a

\* a === b: strings by content, objects by reference (two parsed objects
\* are never the same object)
StrictEq(a, b) == a.t = b.t /\ a.t \notin {"map", "arr"} /\ a.s = b.s

\* String(v ?? "")
StringOf(v) ==
    CASE v.t = "undef" -> ""
      [] v.t = "str" -> v.s
      [] OTHER -> "[object Object]"

(***************************************************************************)
(* Strings the sort sees, with String.prototype.toLowerCase and the        *)
(* collation order of String.prototype.localeCompare on them.              *)
(***************************************************************************)
toLowerCase(s) ==
    CASE s = "A" -> "a"
      [] s = "N" -> "n"
      [] s = "https://wgu-competencies.github.io/Project-Management/skills/u1" ->
             "https://wgu-competencies.github.io/project-management/skills/u1"
      [] s = "[object Object]" -> "[object object]"
      [] OTHER -> s

CollationRank(s) ==
    CASE s = "" -> 0
      [] s = "[object object]" -> 1
      [] s = "a" -> 2
      [] s = "b" -> 3
      [] s = "https://osmt.wgu.edu/api/skills/u1" -> 4
      [] s = "https://wgu-competencies.github.io/project-management/skills/u1" -> 5
      [] s = "m" -> 6
      [] s = "n" -> 7
      [] s = "A" -> 8   \* never compared: keys are lower-cased first
      [] s = "N" -> 9
      [] OTHER -> 10

\* x.localeCompare(y): negative, zero or positive
localeCompare(x, y) ==
    IF x = y THEN 0
    ELSE IF CollationRank(x) < CollationRank(y) THEN 0 - 1
    ELSE IF CollationRank(x) > CollationRank(y) THEN 1
    ELSE 0

\* the place each element of an array takes in a stable sort, when cmp[j, i]
\* is what the comparator returns on the j-th and i-th element: after the
\* elements that compare lower and the earlier ones that compare equal
sortedPlaces(n, cmp) ==
    AsSeq([i \in 1..n |->
        1 + Cardinality({j \in 1..n : cmp[j, i] < 0 \/ (cmp[j, i] = 0 /\ j < i)})])

\* the array with its i-th element moved to place[i]
placed(arr, place) ==
    AsSeq([p \in 1..Len(arr) |-> arr[CHOOSE i \in 1..Len(arr) : place[i] = p]])

\* Array.prototype.sort(comparator): a stable sort
sort(arr, cmp) == placed(arr, sortedPlaces(Len(arr), cmp))

(***************************************************************************)
(* Files.  A file's content is what readJson makes of it.                  *)
(***************************************************************************)
Absent == [kind |-> "absent", obj |-> <<>>]         \* no such file (ENOENT)
Unreadable == [kind |-> "unreadable", obj |-> <<>>] \* exists, read fails (EACCES)
BadJson == [kind |-> "badjson", obj |-> <<>>]       \* JSON.parse throws SyntaxError
Obj(fields) == [kind |-> "object", obj |-> fields]  \* parses to an object

RSD == "RichSkillDescriptor"
CC == "ceterms:Competency"

\* skill records
S1 == Obj(<<Fld("id", Str("a")), Fld("type", Str(RSD)), Fld("skillName", Str("N")),
            Fld("description", Str("d1"))>>)
S2 == Obj(<<Fld("id", Str("A")), Fld("@type", Str(RSD)), Fld("skillName", Str("m")),
            Fld("author", Str("own")), Fld("isMemberOf", Str("c2"))>>)
S3 == Obj(<<Fld("id", Str("b")), Fld("type", Str(RSD)), Fld("skillName", Str("n"))>>)
S4 == Obj(<<Fld("id", Str("a")), Fld("type", Str(RSD)), Fld("skillName", Str("N")),
            Fld("description", Str("d1")), Fld("isMemberOf", Str("c1"))>>)
\* a skill whose id is an OSMT URL (tools/update-skill-ids.mjs rewrites it)
OLD_BASE == "https://osmt.wgu.edu/api/skills/"
NEW_BASE == "https://wgu-competencies.github.io/Project-Management/skills/"
Uuids == {"u1"}
SOsmt == Obj(<<Fld("id", Str(OLD_BASE \o "u1")), Fld("type", Str(RSD)),
               Fld("skillName", Str("N"))>>)
SNoId == Obj(<<Fld("type", Str(RSD)), Fld("skillName", Str("n"))>>)

\* competency records
Q1 == Obj(<<Fld("@id", Str("a")), Fld("@type", Str(CC)), Fld("ceterms:name", LangMap("N"))>>)
Q2 == Obj(<<Fld("@id", Str("A")), Fld("@type", Str(CC)), Fld("ceterms:name", LangMap("n")),
            Fld("ceterms:ctid", Str("ce-2"))>>)
Q3 == Obj(<<Fld("@id", Str("b")), Fld("@type", Str(CC)), Fld("ceterms:name", LangMap("m"))>>)

\* metadata files
SkillMeta(id, author) ==
    Obj(<<Fld("@context", Str("ctx")), Fld("id", Str(id)), Fld("type", Str("Collection")),
          Fld("name", Str("PM")), Fld("description", Str("desc")), Fld("author", Str(author))>>)
SkillMetaNoAuthor ==
    Obj(<<Fld("@context", Str("ctx")), Fld("id", Str("c1")), Fld("type", Str("Collection")),
          Fld("name", Str("PM")), Fld("description", Str("desc"))>>)
SkillMetaWrongType ==
    Obj(<<Fld("@context", Str("ctx")), Fld("id", Str("c1")), Fld("type", Str("Other")),
          Fld("name", Str("PM")), Fld("description", Str("desc")), Fld("author", Str("au1"))>>)
CompMeta(id) ==
    Obj(<<Fld("@context", Str("ctx")), Fld("@id", Str(id)), Fld("@type", Str("ceterms:Collection"))>>)
CompMetaNoId ==
    Obj(<<Fld("@context", Str("ctx")), Fld("@type", Str("ceterms:Collection"))>>)

Variants == {"skill", "competency"}

MetaContents(variant) ==
    IF variant = "skill"
    THEN {SkillMeta("c1", "au1"), SkillMeta("c2", "au2"), SkillMetaNoAuthor,
          SkillMetaWrongType, BadJson}
    ELSE {CompMeta("c1"), CompMetaNoId, Absent}

RecordContents(variant) ==
    IF variant = "skill"
    THEN {S1, S2, S3, S4, SNoId}
    ELSE {Q1, Q2, Q3, Unreadable}

\* the --sort-by whitelist (parseArgs)
SortKeys(variant) == IF variant = "skill" THEN {"id", "skillName"} ELSE {"id", "name"}

(***************************************************************************)
(* Paths under the records root, relative to it.                           *)
(***************************************************************************)
AllJsonPaths == <<"a.json", "sub/B.JSON", "c.json">>
JsonPaths ==
    {AllJsonPaths[i] : i \in 1..(IF MaxFiles < Len(AllJsonPaths) THEN MaxFiles ELSE Len(AllJsonPaths))}
OtherPath == "readme.txt"
Paths == JsonPaths \cup {OtherPath}

\* ent.name of the directory entry of a path
entName(p) == IF p = "sub/B.JSON" THEN "B.JSON" ELSE p

\* ent.name.toLowerCase()
nameLower(n) == IF n = "B.JSON" THEN "b.json" ELSE n

\* s.endsWith(".json")
endsWithJson(n) == n \in {"a.json", "b.json", "c.json"}

\* a.localeCompare(b) on the full paths
PathRank(p) ==
    CASE p = "a.json" -> 1
      [] p = "c.json" -> 2
      [] p = "readme.txt" -> 3
      [] p = "sub/B.JSON" -> 4
      [] OTHER -> 5
comparePaths(a, b) ==
    IF PathRank(a) < PathRank(b) THEN 0 - 1 ELSE IF PathRank(a) > PathRank(b) THEN 1 ELSE 0

\* the files walk() pushes: regular files whose name ends in .json, case-insensitively
Matching(st) == {p \in Paths : st[p].kind # "absent" /\ endsWithJson(nameLower(entName(p)))}

\* every order walk() can push them in (readdirSync promises no order)
Listings(st) ==
    LET m == Matching(st)
        n == Cardinality(m)
    IN  {l \in [1..n -> m] : \A i, j \in 1..n : i # j => l[i] # l[j]}

(***************************************************************************)
(* Results of the steps of compile(): a failure is what die() reports.     *)
(***************************************************************************)
\* `reads` is what the step did on the file system before it returned or died
Fail(err, path) ==
    [ok |-> FALSE, err |-> err, path |-> path, val |-> <<>>, text |-> "", reads |-> <<>>]
Good(val) ==
    [ok |-> TRUE, err |-> "none", path |-> "", val |-> val, text |-> "", reads |-> <<>>]

\* one file operation
Step(op, path) == [op |-> op, path |-> path]

\* the result r of a step that did the operations `steps`
After(steps, r) == [r EXCEPT !.reads = steps \o r.reads]

\* fs.existsSync(filePath), fs.readFileSync(filePath, "utf8"), JSON.parse(raw)
readJsonFile(file, path) ==
    CASE file.kind = "absent" -> Fail("MissingFile", path)
      [] file.kind = "badjson" -> Fail("InvalidJSON", path)
      [] file.kind = "unreadable" -> Fail("IOFailure", path)
      [] OTHER -> Good(file)

readJson(file, path) == After(<<Step("read", path)>>, readJsonFile(file, path))

\* results.sort((a, b) => a.localeCompare(b))
sortPaths(results) ==
    sort(results, [j, i \in 1..Len(results) |-> comparePaths(results[j], results[i])])

\* listJsonFiles without line 75: the files in the order walk() found them
listJsonFilesUnsorted(exists, st, listing) ==
    After(<<Step("scan", "dir")>>,
          IF ~exists THEN Fail("MissingDirectory", "dir")
          ELSE IF Len(listing) = 0 THEN Fail("EmptyCollection", "dir") ELSE Good(listing))

\* listJsonFiles without line 76: an empty result is returned like any other
listJsonFilesNoEmptyCheck(exists, st, listing) ==
    After(<<Step("scan", "dir")>>,
          IF ~exists THEN Fail("MissingDirectory", "dir") ELSE Good(sortPaths(listing)))

listJsonFiles(exists, st, listing) ==
    After(<<Step("scan", "dir")>>,
          IF ~exists THEN Fail("MissingDirectory", "dir")
          ELSE LET results == sortPaths(listing)
               IN  IF Len(results) = 0 THEN Fail("EmptyCollection", "dir") ELSE Good(results))

(***************************************************************************)
(* Validation and normalization.                                           *)
(***************************************************************************)
\* the keys of `required` that obj lacks: required.filter((k) => !(k in meta))
MissingKeys(obj, required) == {key \in required : ~HasKey(obj, key)}

validateMeta(m) ==
    IF m.kind # "object" THEN Fail("InvalidMetadata", "meta")
    ELSE IF MissingKeys(m.obj, {"@context", "id", "type", "name", "description", "author"}) # {}
         THEN Fail("InvalidMetadata", "meta")
    ELSE IF ~StrictEq(Prop(m.obj, "type"), Str("Collection")) THEN Fail("InvalidMetadata", "meta")
    ELSE Good(m.obj)

validateMetaCompetencies(m) ==
    IF m.kind # "object" THEN Fail("InvalidMetadata", "meta")
    ELSE IF MissingKeys(m.obj, {"@context", "@id", "@type"}) # {}
         THEN Fail("InvalidMetadata", "meta")
    ELSE IF ~StrictEq(Prop(m.obj, "@type"), Str("ceterms:Collection"))
         THEN Fail("InvalidMetadata", "meta")
    ELSE Good(m.obj)

\* validateSkill without lines 110-116
validateSkillNoMembership(skill, skillPath, collectionId) ==
    IF skill.kind # "object" THEN Fail("MalformedRecord", skillPath)
    ELSE IF ~HasKey(skill.obj, "id") THEN Fail("MissingField", skillPath)
    ELSE LET typeValue == OrElse(Prop(skill.obj, "type"), Prop(skill.obj, "@type"))
         IN  IF Falsy(typeValue) THEN Fail("MissingField", skillPath)
             ELSE IF ~StrictEq(typeValue, Str(RSD)) THEN Fail("TypeMismatch", skillPath)
             ELSE Good(skill.obj)

validateSkill(skill, skillPath, collectionId) ==
    IF skill.kind # "object" THEN Fail("MalformedRecord", skillPath)
    ELSE IF ~HasKey(skill.obj, "id") THEN Fail("MissingField", skillPath)
    ELSE LET typeValue == OrElse(Prop(skill.obj, "type"), Prop(skill.obj, "@type"))
         IN  IF Falsy(typeValue) THEN Fail("MissingField", skillPath)
             ELSE IF ~StrictEq(typeValue, Str(RSD)) THEN Fail("TypeMismatch", skillPath)
             ELSE IF HasKey(skill.obj, "isMemberOf")
                     /\ ~StrictEq(Prop(skill.obj, "isMemberOf"), collectionId)
                  THEN Fail("MembershipMismatch", skillPath)
             ELSE Good(skill.obj)

validateCompetency(competency, competencyPath, collectionId) ==
    IF competency.kind # "object" THEN Fail("MalformedRecord", competencyPath)
    ELSE IF ~HasKey(competency.obj, "@id") THEN Fail("MissingField", competencyPath)
    ELSE LET typeValue == Prop(competency.obj, "@type")
         IN  IF Falsy(typeValue) THEN Fail("MissingField", competencyPath)
             ELSE IF ~StrictEq(typeValue, Str(CC)) THEN Fail("TypeMismatch", competencyPath)
             ELSE Good(competency.obj)

\* a normalizeSkill that sets author on every record
normalizeSkillOverwriteAuthor(skill, collectionId, collectionAuthor) ==
    LET s1 == IF ~HasKey(skill, "isMemberOf") THEN SetProp(skill, "isMemberOf", collectionId)
              ELSE skill
    IN  SetProp(s1, "author", collectionAuthor)

normalizeSkill(skill, collectionId, collectionAuthor) ==
    LET s1 == IF ~HasKey(skill, "isMemberOf") THEN SetProp(skill, "isMemberOf", collectionId)
              ELSE skill
    IN  IF ~HasKey(s1, "author") THEN SetProp(s1, "author", collectionAuthor) ELSE s1

normalizeCompetency(competency, collectionId, collectionAuthor) == competency

(***************************************************************************)
(* The sort comparators of compile().                                      *)
(***************************************************************************)
\* the comparator without its tie-break on id (line 197)
compareSkillsNoTieBreak(sortBy, a, b) ==
    LET aKey == toLowerCase(StringOf(Prop(a, sortBy)))
        bKey == toLowerCase(StringOf(Prop(b, sortBy)))
    IN  IF aKey # bKey THEN localeCompare(aKey, bKey) ELSE 0

compareSkills(sortBy, a, b) ==
    LET aKey == toLowerCase(StringOf(Prop(a, sortBy)))
        bKey == toLowerCase(StringOf(Prop(b, sortBy)))
        aId == toLowerCase(StringOf(Prop(a, "id")))
        bId == toLowerCase(StringOf(Prop(b, "id")))
    IN  IF aKey # bKey THEN localeCompare(aKey, bKey) ELSE localeCompare(aId, bId)

\* a?.["ceterms:name"]?.["en-US"]
enUSName(rec) ==
    LET nm == Prop(rec, "ceterms:name")
    IN  IF nm.t = "map" THEN Str(nm.s) ELSE Undefined

compareCompetencies(sortBy, a, b) ==
    LET aKey == IF sortBy = "name" THEN toLowerCase(StringOf(enUSName(a)))
                ELSE toLowerCase(StringOf(Prop(a, "@id")))
        bKey == IF sortBy = "name" THEN toLowerCase(StringOf(enUSName(b)))
                ELSE toLowerCase(StringOf(Prop(b, "@id")))
        aId == toLowerCase(StringOf(Prop(a, "@id")))
        bId == toLowerCase(StringOf(Prop(b, "@id")))
    IN  IF aKey # bKey THEN localeCompare(aKey, bKey) ELSE localeCompare(aId, bId)

(***************************************************************************)
(* The compiled collection and its text.                                   *)
(***************************************************************************)
\* { ...meta, [arrayKey]: records }: the metadata fields in their order; the
\* record array takes the place of a metadata field of the same name, and is
\* appended otherwise
Assemble(metaObj, arrayKey, records) ==
    LET plain == AsSeq([i \in 1..Len(metaObj) |->
                    [k |-> metaObj[i].k, v |-> metaObj[i].v, arr |-> FALSE, items |-> <<>>]])
        array == [k |-> arrayKey, v |-> Undefined, arr |-> TRUE, items |-> records]
    IN  IF HasKey(metaObj, arrayKey)
        THEN AsSeq([i \in 1..Len(plain) |-> IF plain[i].k = arrayKey THEN array ELSE plain[i]])
        ELSE Append(plain, array)

\* the record array of a compiled collection
RecordsOf(compiled, arrayKey) ==
    compiled[CHOOSE i \in 1..Len(compiled) : compiled[i].k = arrayKey /\ compiled[i].arr].items

Quote(s) == "\"" \o s \o "\""

Indent(d) ==
    CASE d = 0 -> ""
      [] d = 1 -> "  "
      [] d = 2 -> "    "
      [] d = 3 -> "      "
      [] OTHER -> "        "

\* JSON.stringify(v, null, 2) of a value at nesting depth d
ValueText(v, d) ==
    IF v.t = "arr" THEN v.s
    ELSE IF v.t = "map"
    THEN "{\n" \o Indent(d + 1) \o Quote("en-US") \o ": " \o Quote(v.s) \o "\n" \o Indent(d) \o "}"
    ELSE Quote(v.s)

RECURSIVE FieldsText(_, _, _)
FieldsText(obj, i, d) ==
    IF i > Len(obj) THEN ""
    ELSE Indent(d) \o Quote(obj[i].k) \o ": " \o ValueText(obj[i].v, d)
         \o (IF i < Len(obj) THEN ",\n" ELSE "\n") \o FieldsText(obj, i + 1, d)

ObjectText(obj, d) ==
    IF Len(obj) = 0 THEN "{}" ELSE "{\n" \o FieldsText(obj, 1, d + 1) \o Indent(d) \o "}"

RECURSIVE ItemsText(_, _, _)
ItemsText(items, i, d) ==
    IF i > Len(items) THEN ""
    ELSE Indent(d) \o ObjectText(items[i], d)
         \o (IF i < Len(items) THEN ",\n" ELSE "\n") \o ItemsText(items, i + 1, d)

ArrayText(items, d) ==
    IF Len(items) = 0 THEN "[]" ELSE "[\n" \o ItemsText(items, 1, d + 1) \o Indent(d) \o "]"

RECURSIVE TopText(_, _)
TopText(compiled, i) ==
    IF i > Len(compiled) THEN ""
    ELSE Indent(1) \o Quote(compiled[i].k) \o ": "
         \o (IF compiled[i].arr THEN ArrayText(compiled[i].items, 1)
             ELSE ValueText(compiled[i].v, 1))
         \o (IF i < Len(compiled) THEN ",\n" ELSE "\n") \o TopText(compiled, i + 1)

\* JSON.stringify(obj, null, 2) + "\n"
stableStringify(compiled) ==
    (IF Len(compiled) = 0 THEN "{}" ELSE "{\n" \o TopText(compiled, 1) \o "}") \o "\n"

(***************************************************************************)
(* compile(): metadata, scan, load + validate + normalize each file in     *)
(* sorted-path order (the first failure ends the run), sort, serialize.    *)
(***************************************************************************)
\* the file operations of the first n callbacks (each reads its one file)
ReadsOf(loaded, n) == AsSeq([i \in 1..n |-> loaded[i].reads[1]])

\* the callback died on the file at index `first`
DiedAt(loaded, first) == [loaded[first] EXCEPT !.reads = ReadsOf(loaded, first)]

\* a map() whose callback records its failure instead of dying: every file
\* is loaded and the failure reported is the last one
LastFailure(loaded) ==
    LET bad == {i \in 1..Len(loaded) : ~loaded[i].ok}
    IN  IF bad # {}
        THEN [loaded[CHOOSE i \in bad : \A j \in bad : i >= j]
                 EXCEPT !.reads = ReadsOf(loaded, Len(loaded))]
        ELSE After(ReadsOf(loaded, Len(loaded)),
                   Good(AsSeq([i \in 1..Len(loaded) |-> loaded[i].val])))

\* files.map(callback): the callback runs on one file at a time, in array
\* order, and the first die() ends the process; the result is that failure,
\* or the sequence of values
FirstFailure(loaded) ==
    LET bad == {i \in 1..Len(loaded) : ~loaded[i].ok}
    IN  IF bad # {}
        THEN DiedAt(loaded, CHOOSE i \in bad : \A j \in bad : i <= j)
        ELSE After(ReadsOf(loaded, Len(loaded)),
                   Good(AsSeq([i \in 1..Len(loaded) |-> loaded[i].val])))

Done(compiled) == [Good(compiled) EXCEPT !.text = stableStringify(compiled)]

\* the callback of skillFiles.map(): the normalized record of one file
loadSkill(file, fp, collectionId, collectionAuthor) ==
    LET data == readJson(file, fp)
        valid == validateSkill(data.val, fp, collectionId)
    IN  IF ~data.ok THEN data
        ELSE IF ~valid.ok THEN After(data.reads, valid)
        ELSE After(data.reads, Good(normalizeSkill(valid.val, collectionId, collectionAuthor)))

\* skills.sort((a, b) => ...)
sortSkills(skills, sortBy) ==
    sort(skills, [j, i \in 1..Len(skills) |-> compareSkills(sortBy, skills[j], skills[i])])

\* the rest of compile() once the metadata is loaded and validated;
\* skillFiles is what listJsonFiles(skillsDir) returned (line 182)
compileRecords(metaObj, st, sortBy, skillFiles, skills) ==
    IF ~skillFiles.ok THEN skillFiles
    ELSE IF ~skills.ok THEN After(skillFiles.reads, skills)
    ELSE After(skillFiles.reads \o skills.reads,
               Done(Assemble(metaObj, "skills", sortSkills(skills.val, sortBy))))

\* a compile() that scans the records root before it loads the metadata
compileScanFirst(metaFile, st, sortBy, skillFiles) ==
    LET parsed == readJson(metaFile, "meta")
        valid == validateMeta(parsed.val)
        collectionId == Prop(valid.val, "id")
        collectionAuthor == Prop(valid.val, "author")
    IN  IF ~skillFiles.ok THEN skillFiles
        ELSE IF ~parsed.ok THEN After(skillFiles.reads, parsed)
        ELSE IF ~valid.ok THEN After(skillFiles.reads \o parsed.reads, valid)
        ELSE After(parsed.reads,
                 compileRecords(valid.val, st, sortBy, skillFiles,
                     FirstFailure(AsSeq([i \in 1..Len(skillFiles.val) |->
                         loadSkill(st[skillFiles.val[i]], skillFiles.val[i],
                                   collectionId, collectionAuthor)]))))

compile(metaFile, st, sortBy, skillFiles) ==
    LET parsed == readJson(metaFile, "meta")
        valid == validateMeta(parsed.val)
        collectionId == Prop(valid.val, "id")
        collectionAuthor == Prop(valid.val, "author")
    IN  IF ~parsed.ok THEN parsed
        ELSE IF ~valid.ok THEN After(parsed.reads, valid)
        ELSE After(parsed.reads,
                 compileRecords(valid.val, st, sortBy, skillFiles,
                     FirstFailure(AsSeq([i \in 1..Len(skillFiles.val) |->
                         loadSkill(st[skillFiles.val[i]], skillFiles.val[i],
                                   collectionId, collectionAuthor)]))))

\* the callback of competencyFiles.map()
loadCompetency(file, fp, collectionId) ==
    LET data == readJson(file, fp)
        valid == validateCompetency(data.val, fp, collectionId)
    IN  IF ~data.ok THEN data
        ELSE IF ~valid.ok THEN After(data.reads, valid)
        ELSE After(data.reads, Good(normalizeCompetency(valid.val, collectionId, Undefined)))

\* competencies.sort((a, b) => ...)
sortCompetencies(competencies, sortBy) ==
    sort(competencies, [j, i \in 1..Len(competencies) |->
                           compareCompetencies(sortBy, competencies[j], competencies[i])])

compileCompetencyRecords(metaObj, st, sortBy, competencyFiles, competencies) ==
    IF ~competencyFiles.ok THEN competencyFiles
    ELSE IF ~competencies.ok THEN After(competencyFiles.reads, competencies)
    ELSE After(competencyFiles.reads \o competencies.reads,
               Done(Assemble(metaObj, "competencies",
                             sortCompetencies(competencies.val, sortBy))))

compileCompetencies(metaFile, st, sortBy, competencyFiles) ==
    LET parsed == readJson(metaFile, "meta")
        valid == validateMetaCompetencies(parsed.val)
        collectionId == Prop(valid.val, "@id")
    IN  IF ~parsed.ok THEN parsed
        ELSE IF ~valid.ok THEN After(parsed.reads, valid)
        ELSE After(parsed.reads,
                 compileCompetencyRecords(valid.val, st, sortBy, competencyFiles,
                     FirstFailure(AsSeq([i \in 1..Len(competencyFiles.val) |->
                         loadCompetency(st[competencyFiles.val[i]], competencyFiles.val[i],
                                        collectionId)]))))

\* the tool of a variant
Compile(variant, metaFile, st, sortBy, files) ==
    IF variant = "skill" THEN compile(metaFile, st, sortBy, files)
    ELSE compileCompetencies(metaFile, st, sortBy, files)

\* what listJsonFiles can return on a records root, over every order the
\* directory listing can come in
Scans(exists, st) == {listJsonFiles(exists, st, listing) : listing \in Listings(st)}

ArrayKey(variant) == IF variant = "skill" THEN "skills" ELSE "competencies"
IdKey(variant) == IF variant = "skill" THEN "id" ELSE "@id"

(***************************************************************************)
(* main(): compile, read the old artifact, then write or compare.          *)
(***************************************************************************)
Missing == [st |-> "missing", text |-> ""]          \* no artifact file
NoRead == [st |-> "unreadable", text |-> ""]        \* exists, cannot be read
File(text) == [st |-> "file", text |-> text]

\* a readTextOrEmpty without line 45: a missing file is a read failure
readTextOrEmptyStrict(file) ==
    CASE file.st = "file" -> [Good(<<>>) EXCEPT !.text = file.text]
      [] OTHER -> Fail("IOFailure", "out")

readTextOrEmpty(file) ==
    CASE file.st = "missing" -> [Good(<<>>) EXCEPT !.text = ""]
      [] file.st = "unreadable" -> Fail("IOFailure", "out")
      [] OTHER -> [Good(<<>>) EXCEPT !.text = file.text]

\* a writeText that opens the file for writing and writes nothing
writeTextTruncating(file, text) == File("")

\* writeText(outPath, text)
writeText(file, text) == File(text)

Outcome(mode, exit, err, path, stdout, c, wrote) ==
    [mode |-> mode, exit |-> exit, err |-> err, path |-> path, stdout |-> stdout,
     compiledOk |-> c.ok, compiled |-> c.val, text |-> c.text, wrote |-> wrote]

Nothing == [ok |-> FALSE, val |-> <<>>, text |-> ""]

\* a main() whose check never compares the texts
mainNeverStale(mode, c, file) ==
    LET oldText == readTextOrEmpty(file)
    IN  IF ~c.ok THEN Outcome(mode, 1, c.err, c.path, "", Nothing, FALSE)
        ELSE IF ~oldText.ok THEN Outcome(mode, 1, oldText.err, oldText.path, "", c, FALSE)
        ELSE IF mode = "write" THEN Outcome(mode, 0, "none", "", "WROTE: out", c, TRUE)
        ELSE Outcome(mode, 0, "none", "", "OK", c, FALSE)

\* a main() that writes whatever compile() got to before it failed
mainWritesOnFailure(mode, c, file) ==
    LET oldText == readTextOrEmpty(file)
    IN  IF ~c.ok THEN Outcome(mode, 1, c.err, c.path, "", Nothing, mode = "write")
        ELSE IF ~oldText.ok THEN Outcome(mode, 1, oldText.err, oldText.path, "", c, FALSE)
        ELSE IF mode = "write" THEN Outcome(mode, 0, "none", "", "WROTE: out", c, TRUE)
        ELSE IF oldText.text # c.text THEN Outcome(mode, 1, "StaleArtifact", "out", "", c, FALSE)
        ELSE Outcome(mode, 0, "none", "", "OK", c, FALSE)

\* the run of main() in a mode, given what compile() returned and the artifact file
main(mode, c, file) ==
    LET oldText == readTextOrEmpty(file)
    IN  IF ~c.ok THEN Outcome(mode, 1, c.err, c.path, "", Nothing, FALSE)
        ELSE IF ~oldText.ok THEN Outcome(mode, 1, oldText.err, oldText.path, "", c, FALSE)
        ELSE IF mode = "write" THEN Outcome(mode, 0, "none", "", "WROTE: out", c, TRUE)
        ELSE IF oldText.text # c.text THEN Outcome(mode, 1, "StaleArtifact", "out", "", c, FALSE)
        ELSE Outcome(mode, 0, "none", "", "OK", c, FALSE)

(***************************************************************************)
(* parseArgs() and the files its paths name.                               *)
(***************************************************************************)
MetaPath == "meta"  \* DEFAULT_META
DirPath == "dir"    \* DEFAULT_SKILLS_DIR / DEFAULT_COMPETENCIES_DIR
OutPath == "out"    \* DEFAULT_OUT

\* argv[++i] past the end of the list: undefined
NoValue == "<undefined>"
ArgValue(av, i) == IF i <= Len(av) THEN av[i] ELSE NoValue

DirOption(variant) == IF variant = "skill" THEN "--skills-dir" ELSE "--competencies-dir"

DefaultArgs ==
    [meta |-> MetaPath, dir |-> DirPath, out |-> OutPath, sortBy |-> "id", mode |-> "none",
     done |-> FALSE, exit |-> 0, err |-> "none", stdout |-> ""]

\* process.exit(0) after the usage text
Usage(args) == [args EXCEPT !.done = TRUE, !.exit = 0, !.stdout = "USAGE"]

\* die() on the arguments
BadArgs(args) == [args EXCEPT !.done = TRUE, !.exit = 1, !.err = "InvalidArgument"]

\* the for loop of parseArgs from token i on
RECURSIVE parseLoop(_, _, _, _)
parseLoop(variant, av, i, args) ==
    IF i > Len(av) THEN args
    ELSE CASE av[i] = "--meta" ->
                parseLoop(variant, av, i + 2, [args EXCEPT !.meta = ArgValue(av, i + 1)])
           [] av[i] = DirOption(variant) ->
                parseLoop(variant, av, i + 2, [args EXCEPT !.dir = ArgValue(av, i + 1)])
           [] av[i] = "--out" ->
                parseLoop(variant, av, i + 2, [args EXCEPT !.out = ArgValue(av, i + 1)])
           [] av[i] = "--sort-by" ->
                parseLoop(variant, av, i + 2, [args EXCEPT !.sortBy = ArgValue(av, i + 1)])
           [] av[i] = "--write" -> parseLoop(variant, av, i + 1, [args EXCEPT !.mode = "write"])
           [] av[i] = "--check" -> parseLoop(variant, av, i + 1, [args EXCEPT !.mode = "check"])
           [] av[i] \in {"--help", "-h"} -> Usage(args)
           [] OTHER -> BadArgs(args)

\* a parseArgs that notes the help flag and checks the mode before acting on it
checkArgsBeforeHelp(variant, args) ==
    IF args.mode = "none" THEN BadArgs(args)
    ELSE IF args.sortBy \notin SortKeys(variant) THEN BadArgs(args)
    ELSE args

\* the checks after the loop
checkArgs(variant, args) ==
    IF args.done THEN args
    ELSE IF args.mode = "none" THEN BadArgs(args)
    ELSE IF args.sortBy \notin SortKeys(variant) THEN BadArgs(args)
    ELSE args

parseArgs(variant, av) == checkArgs(variant, parseLoop(variant, av, 1, DefaultArgs))

\* the value of an entry of a compiled collection: the record array (its
\* items, and its text at depth 1) or the metadata value
EntryValue(entry) ==
    IF entry.arr
    THEN [t |-> "arr", s |-> ArrayText(entry.items, 1), items |-> entry.items]
    ELSE entry.v

\* the metadata file once a --write has put a compiled collection in it: it
\* parses to the compiled object, the record array being one of its values
Written(file, compiled) ==
    [kind |-> "object",
     obj |-> AsSeq([i \in 1..Len(compiled) |-> Fld(compiled[i].k, EntryValue(compiled[i]))]),
     text |-> file.text]

\* a JSON file read as text.  The text of a metadata file as authored is not
\* that of any compiled collection (it has no record array).
TextFileOf(file) ==
    CASE file.kind = "absent" -> Missing
      [] file.kind = "unreadable" -> NoRead
      [] "text" \in DOMAIN file -> File(file.text)
      [] OTHER -> File("authored")

\* the files behind the paths parseArgs returns.  The argument lists of the
\* model name the metadata file, the artifact file, the records root, or a
\* path where there is nothing.
JsonFileAt(path) == IF path = MetaPath THEN meta ELSE Absent
DirExistsAt(path) == path = DirPath /\ dirExists
StoreAt(path) == IF path = DirPath THEN store ELSE [p \in Paths |-> Absent]
TextFileAt(path) ==
    CASE path = OutPath -> artifact
      [] path = MetaPath -> TextFileOf(meta)
      [] OTHER -> Missing

NoRun == Outcome("none", 0, "none", "", "", Nothing, FALSE)
NoPrev == [mode |-> "none", exit |-> 0, text |-> "", edited |-> FALSE]
NoEdit == [path |-> "", old |-> Absent]

(***************************************************************************)
(* The state machine.                                                      *)
(***************************************************************************)
\* a file that is not a record: its name does not end in .json
Readme == [kind |-> "text", obj |-> <<>>]

ValidMeta(variant, m) ==
    IF variant = "skill" THEN validateMeta(m).ok ELSE validateMetaCompetencies(m).ok

\* the records roots: every assignment of contents to the *.json paths; a
\* root that holds records also holds the readme, one that holds none may
\* hold it or be empty
Stores(variant) ==
    {st \in [Paths -> RecordContents(variant) \cup {Absent, Readme}] :
        /\ \A p \in JsonPaths : st[p] # Readme
        /\ st[OtherPath] \in {Absent, Readme}
        /\ (\E p \in JsonPaths : st[p] # Absent) => st[OtherPath] = Readme}

\* the roots in which all *.json paths hold the same content
UniformStores(variant) ==
    {st \in Stores(variant) : \A p, q \in JsonPaths : st[p] = st[q]}

NoStore == [p \in Paths |-> Absent]

\* the skills roots whose a.json has an OSMT id; the other record files are
\* absent or have an OSMT id as well
OsmtStores(variant) ==
    IF variant # "skill" THEN {}
    ELSE {st \in [Paths -> {SOsmt, Absent, Readme}] :
             /\ st["a.json"] = SOsmt
             /\ \A p \in JsonPaths : st[p] # Readme
             /\ st[OtherPath] = Readme}

\* the inputs of a run: metadata file, records root.  Metadata that fails
\* validation comes with the uniform roots only.
Setups(variant) ==
    {[meta |-> m, exists |-> TRUE, store |-> st] :
        m \in {x \in MetaContents(variant) : x.kind = "object" /\ ValidMeta(variant, x)},
        st \in Stores(variant) \cup OsmtStores(variant)}
    \cup {[meta |-> m, exists |-> TRUE, store |-> st] :
        m \in MetaContents(variant), st \in UniformStores(variant)}
    \cup {[meta |-> m, exists |-> FALSE, store |-> NoStore] : m \in MetaContents(variant)}

Init ==
    /\ cfg \in {c \in [variant : Variants, sortBy : {"id", "skillName", "name"}] :
                    c.sortBy \in SortKeys(c.variant)}
    /\ \E s \in Setups(cfg.variant) :
          /\ meta = s.meta
          /\ dirExists = s.exists
          /\ store = s.store
    /\ artifact \in {Missing, NoRead, File("junk")}
    /\ last = NoRun
    /\ prev = NoPrev
    /\ pre = artifact
    /\ edit = NoEdit
    /\ changed = FALSE
    /\ edits = 0
    /\ runs = 0
    /\ argv = <<>>
    /\ io = <<>>

\* the whole of main() on an argument list: parseArgs, path.resolve,
\* compile, readTextOrEmpty, then the write or the check
Run(av) ==
    /\ \E a \in {parseArgs(cfg.variant, av)} :
          IF a.done
          THEN /\ last' = Outcome("none", a.exit, a.err, "", a.stdout, Nothing, FALSE)
               /\ io' = <<>>
               /\ UNCHANGED <<artifact, meta>>
          ELSE IF NoValue \in {a.meta, a.dir, a.out}
          THEN /\ last' = Outcome(a.mode, 1, "TypeError", "", "", Nothing, FALSE)
               /\ io' = <<>>
               /\ UNCHANGED <<artifact, meta>>
          ELSE \E files \in Scans(DirExistsAt(a.dir), StoreAt(a.dir)) :
               \E c \in {Compile(cfg.variant, JsonFileAt(a.meta), StoreAt(a.dir), a.sortBy, files)} :
               \E r \in {main(a.mode, c, TextFileAt(a.out))} :
                  /\ last' = r
                  /\ io' = c.reads
                            \o (IF c.ok THEN <<Step("readText", "out")>> ELSE <<>>)
                            \o (IF r.wrote THEN <<Step("write", "out")>> ELSE <<>>)
                  /\ artifact' = IF r.wrote /\ a.out = OutPath
                                 THEN writeText(artifact, r.text) ELSE artifact
                  /\ meta' = IF r.wrote /\ a.out = MetaPath
                             THEN Written(writeText(TextFileAt(a.out), r.text), r.compiled)
                             ELSE meta
    /\ argv' = av
    /\ prev' = [mode |-> last.mode, exit |-> last.exit, text |-> last.text, edited |-> changed]
    /\ pre' = artifact
    /\ changed' = FALSE
    /\ runs' = runs + 1
    /\ UNCHANGED <<cfg, dirExists, store, edit, edits>>

\* the argument lists of a well-formed invocation with --sort-by cfg.sortBy
UsualArgs == {<<"--sort-by", cfg.sortBy, m>> : m \in {"--write", "--check"}}

\* one invocation of the tool of cfg.variant with --sort-by cfg.sortBy and
\* --write or --check
Invoke ==
    /\ runs < MaxRuns
    /\ \E av \in UsualArgs : Run(av)

\* the author changes the content of one source record after a successful --write
EditRecord ==
    /\ last.mode = "write" /\ last.exit = 0
    /\ ~changed
    /\ edits < MaxEdits
    /\ runs < MaxRuns
    /\ \E p \in Matching(store) :
          \E c \in RecordContents(cfg.variant) \ {store[p]} :
             /\ store' = [store EXCEPT ![p] = c]
             /\ edit' = [path |-> p, old |-> store[p]]
    /\ changed' = TRUE
    /\ edits' = edits + 1
    /\ UNCHANGED <<cfg, meta, dirExists, artifact, last, prev, pre, runs, argv, io>>

\* s.startsWith(OLD_BASE), and s.replace(OLD_BASE, "") on such a string
startsWithOldBase(s) == \E uuid \in Uuids : s = OLD_BASE \o uuid
withoutOldBase(s) == CHOOSE uuid \in Uuids : s = OLD_BASE \o uuid

\* updateSkillFile of tools/update-skill-ids.mjs: the file afterwards.  A
\* file that cannot be read or parsed, or whose id is not a string, throws,
\* and main() catches it: the file stays as it is.
updateSkillFile(file) ==
    IF /\ file.kind = "object"
       /\ Prop(file.obj, "id").t = "str"
       /\ ~Falsy(Prop(file.obj, "id"))
       /\ startsWithOldBase(Prop(file.obj, "id").s)
    THEN Obj(SetProp(file.obj, "id",
                     Str(NEW_BASE \o withoutOldBase(Prop(file.obj, "id").s))))
    ELSE file

\* fs.readdirSync(SKILLS_DIR).filter(f => f.endsWith(".json")): the entries
\* directly under skills/ whose name ends in .json, in lower case
UpdatedPaths(st) == {p \in Paths : st[p].kind # "absent" /\ entName(p) = p /\ endsWithJson(p)}

\* the records root after main() of tools/update-skill-ids.mjs
updateSkillIds(st) ==
    [p \in Paths |-> IF p \in UpdatedPaths(st) THEN updateSkillFile(st[p]) ELSE st[p]]

\* one run of tools/update-skill-ids.mjs on the skills root, at any time.
\* It counts as the edit of one source record when it rewrites one file and
\* no other edit is pending.
UpdateSkillIds ==
    /\ cfg.variant = "skill"
    /\ dirExists
    /\ store' = updateSkillIds(store)
    /\ changed' = (changed \/ store' # store)
    /\ edit' = IF store' = store THEN edit
               ELSE IF ~changed /\ Cardinality({p \in Paths : store'[p] # store[p]}) = 1
               THEN [path |-> CHOOSE p \in Paths : store'[p] # store[p],
                     old |-> store[CHOOSE p \in Paths : store'[p] # store[p]]]
               ELSE NoEdit
    /\ UNCHANGED <<cfg, meta, dirExists, artifact, last, prev, pre, edits, runs, argv, io>>

Next == Invoke \/ EditRecord \/ UpdateSkillIds

Spec == Init /\ [][Next]_vars

(***************************************************************************)
(* The command line: invocations on arbitrary argument lists, over a few   *)
(* inputs.                                                                 *)
(***************************************************************************)
CliArgs ==
    {<<"--write">>, <<"--check">>, <<>>,
     <<"--write", "--check">>, <<"--check", "--write">>,
     <<"--help">>, <<"--write", "-h">>, <<"--bogus", "--help">>, <<"-h", "--bogus">>,
     <<"--meta", "--help", "--write">>,
     <<"--out", "meta", "--write">>, <<"--out", "meta", "--check">>,
     <<"--sort-by", "bogus", "--check">>, <<"--out">>}

\* a root with one record file, a.json, and the readme
OneRecord(c) == [p \in Paths |-> IF p = "a.json" THEN c ELSE IF p = OtherPath THEN Readme
                                 ELSE Absent]

CliSetups(variant) ==
    IF variant = "skill"
    THEN {[meta |-> m, exists |-> TRUE, store |-> OneRecord(c)] :
            m \in {SkillMeta("c1", "au1"), SkillMetaNoAuthor}, c \in {S1, SNoId}}
         \cup {[meta |-> SkillMeta("c1", "au1"), exists |-> FALSE, store |-> NoStore]}
    ELSE {[meta |-> m, exists |-> TRUE, store |-> OneRecord(c)] :
            m \in {CompMeta("c1"), CompMetaNoId}, c \in {Q1, Unreadable}}
         \cup {[meta |-> CompMeta("c1"), exists |-> FALSE, store |-> NoStore]}

InitCli ==
    /\ cfg \in [variant : Variants, sortBy : {"id"}]
    /\ \E s \in CliSetups(cfg.variant) :
          /\ meta = s.meta
          /\ dirExists = s.exists
          /\ store = s.store
    /\ artifact \in {Missing, NoRead, File("junk")}
    /\ last = NoRun
    /\ prev = NoPrev
    /\ pre = artifact
    /\ edit = NoEdit
    /\ changed = FALSE
    /\ edits = 0
    /\ runs = 0
    /\ argv = <<>>
    /\ io = <<>>

\* one invocation on any argument list
InvokeAny ==
    /\ runs < MaxRuns
    /\ \E av \in CliArgs : Run(av)

NextCli == InvokeAny

SpecCli == InitCli /\ [][NextCli]_vars

(***************************************************************************)
(* Validation: well-formed invocations over a wider choice of metadata and *)
(* record contents, one record file (a.json) holding any of them.          *)
(***************************************************************************)
ArrayJson == [kind |-> "array", obj |-> <<>>]   \* the file parses to an array

\* an object without one of its keys
Without(obj, key) == SelectSeq(obj, LAMBDA f : f.k # key)

\* skill records by their type tags
Tagged(tags) == Obj(<<Fld("id", Str("a"))>> \o tags \o <<Fld("skillName", Str("n"))>>)
WideSkills ==
    {S1, S2, SNoId, ArrayJson,
     Tagged(<<>>),
     Tagged(<<Fld("type", Str("Other"))>>),
     Tagged(<<Fld("@type", Str("Other"))>>),
     Tagged(<<Fld("type", Str(""))>>),
     Tagged(<<Fld("type", Str("")), Fld("@type", Str(RSD))>>),
     Tagged(<<Fld("type", Str("Other")), Fld("@type", Str(RSD))>>),
     Tagged(<<Fld("type", Str(RSD)), Fld("@type", Str("Other"))>>)}

\* competency records by their type tags
TaggedCompetency(tags) ==
    Obj(<<Fld("@id", Str("a"))>> \o tags \o <<Fld("ceterms:name", LangMap("n"))>>)
WideCompetencies ==
    {Q1, ArrayJson,
     Obj(<<Fld("@type", Str(CC)), Fld("ceterms:name", LangMap("n"))>>),
     TaggedCompetency(<<>>),
     TaggedCompetency(<<Fld("type", Str(CC))>>),
     TaggedCompetency(<<Fld("@type", Str("Other"))>>),
     TaggedCompetency(<<Fld("@type", Str(""))>>),
     TaggedCompetency(<<Fld("@type", Str(CC)), Fld("isMemberOf", Str("other"))>>)}

\* metadata that already has a field named as the record array, not last
SkillMetaWithSkills ==
    Obj(<<Fld("@context", Str("ctx")), Fld("skills", Str("old")), Fld("id", Str("c1")),
          Fld("type", Str("Collection")), Fld("name", Str("PM")),
          Fld("description", Str("desc")), Fld("author", Str("au1"))>>)
CompMetaWithCompetencies ==
    Obj(<<Fld("competencies", Str("old")), Fld("@context", Str("ctx")), Fld("@id", Str("c1")),
          Fld("@type", Str("ceterms:Collection"))>>)
CompMetaWrongType ==
    Obj(<<Fld("@context", Str("ctx")), Fld("@id", Str("c1")), Fld("@type", Str("Collection"))>>)

RequiredKeys(variant) ==
    IF variant = "skill" THEN {"@context", "id", "type", "name", "description", "author"}
    ELSE {"@context", "@id", "@type"}

WideMetas(variant) ==
    IF variant = "skill"
    THEN {SkillMeta("c1", "au1"), SkillMetaWithSkills, SkillMetaWrongType, ArrayJson}
         \cup {Obj(Without(SkillMeta("c1", "au1").obj, key)) : key \in RequiredKeys("skill")}
    ELSE {CompMeta("c1"), CompMetaWithCompetencies, CompMetaWrongType, ArrayJson}
         \cup {Obj(Without(CompMeta("c1").obj, key)) : key \in RequiredKeys("competency")}

WideRecords(variant) == IF variant = "skill" THEN WideSkills ELSE WideCompetencies

\* a.json holds any record; a second file, when there is one, holds a valid one
WideStores(variant) ==
    {[OneRecord(c) EXCEPT ![AllJsonPaths[2]] = d] :
        c \in WideRecords(variant),
        d \in {Absent, IF variant = "skill" THEN S1 ELSE Q1}}

WideSetups(variant) ==
    {[meta |-> m, exists |-> TRUE, store |-> st] :
        m \in {x \in WideMetas(variant) : ValidMeta(variant, x)}, st \in WideStores(variant)}
    \cup {[meta |-> m, exists |-> TRUE, store |-> OneRecord(c)] :
        m \in WideMetas(variant),
        c \in {Absent, ArrayJson, IF variant = "skill" THEN S1 ELSE Q1}}
    \cup {[meta |-> m, exists |-> FALSE, store |-> NoStore] : m \in WideMetas(variant)}

InitWide ==
    /\ cfg \in {c \in [variant : Variants, sortBy : {"id", "skillName", "name"}] :
                    c.sortBy \in SortKeys(c.variant)}
    /\ \E s \in WideSetups(cfg.variant) :
          /\ meta = s.meta
          /\ dirExists = s.exists
          /\ store = s.store
    /\ artifact \in {Missing, NoRead, File("junk")}
    /\ last = NoRun
    /\ prev = NoPrev
    /\ pre = artifact
    /\ edit = NoEdit
    /\ changed = FALSE
    /\ edits = 0
    /\ runs = 0
    /\ argv = <<>>
    /\ io = <<>>

NextWide == Invoke

SpecWide == InitWide /\ [][NextWide]_vars

(***************************************************************************)
(* Properties.                                                             *)
(***************************************************************************)
\* the last invocation saw the sources as they are now
Ran == last.mode # "none" /\ ~changed

\* the last two invocations were a successful --write and then a --check
WriteThenCheck == last.mode = "check" /\ prev.mode = "write" /\ prev.exit = 0

\* C1: when compilation succeeds and the artifact is absent or readable, a
\* --write succeeds and leaves the compiled text in the artifact, and a
\* --check that follows it with the sources unchanged exits 0 and reports
\* no StaleArtifact.
C1_WriteThenCheckSucceeds ==
    /\ (last.mode = "write" /\ last.compiledOk /\ pre.st # "unreadable")
          => (last.exit = 0 /\ artifact = File(last.text))
    /\ (WriteThenCheck /\ ~prev.edited)
          => (last.exit = 0 /\ last.err = "none" /\ last.stdout = "OK")

C1_Witness ==
    /\ WriteThenCheck /\ ~prev.edited
    /\ last.exit = 0
    /\ artifact = File(last.text)

\* C2: compile returns the same result (text, or failure) for every order the
\* directory listing can come in, and the same text on every run over
\* unchanged sources, whatever an earlier --write did to the artifact.
C2_CompileIdempotent ==
    \A results \in {{Compile(cfg.variant, meta, store, cfg.sortBy, f) :
                        f \in Scans(dirExists, store)}} :
        /\ Cardinality(results) = 1
        /\ Ran => \A c \in results : c.ok = last.compiledOk /\ (c.ok => c.text = last.text)
        /\ (Ran /\ prev.mode # "none" /\ ~prev.edited) => prev.text = last.text

C2_Witness ==
    /\ Ran /\ last.compiledOk
    /\ prev.mode = "write" /\ prev.exit = 0 /\ ~prev.edited
    /\ prev.text = last.text
    /\ Cardinality(Matching(store)) >= 2

\* the record array of the last compiled collection
LastRecords == RecordsOf(last.compiled, ArrayKey(cfg.variant))

\* the records roots that hold the same record contents as st under other
\* file names: the contents of the *.json paths, permuted
Relocations(st) ==
    {st2 \in [Paths -> {st[p] : p \in Paths}] :
        /\ st2[OtherPath] = st[OtherPath]
        /\ \E pi \in [JsonPaths -> JsonPaths] :
              /\ \A p, q \in JsonPaths : p # q => pi[p] # pi[q]
              /\ \A p \in JsonPaths : st2[pi[p]] = st[p]}

\* C3: two records roots that hold the same record contents under different
\* file names compile to byte-identical text, for every set of valid records,
\* those with case-insensitively equal sort key and identifier included.
C3_PlacementIndependent ==
    (Ran /\ last.compiledOk) =>
        \A st2 \in Relocations(store) :
        \A files \in Scans(dirExists, st2) :
        \E c \in {Compile(cfg.variant, meta, st2, cfg.sortBy, files)} :
            c.ok /\ c.text = last.text

\* the record a source file normalizes to under the current metadata
NormalForm(file) ==
    IF cfg.variant = "skill"
    THEN normalizeSkill(file.obj, Prop(meta.obj, "id"), Prop(meta.obj, "author"))
    ELSE normalizeCompetency(file.obj, Prop(meta.obj, "@id"), Undefined)

\* a successful --write, one edit of a source record that leaves it valid,
\* then a --check
EditedThenChecked ==
    WriteThenCheck /\ prev.edited /\ last.compiledOk /\ ~changed /\ edit.path \in Paths

\* C4 as stated: after a successful --write, every change of the content of
\* one source record that leaves the record valid makes the next --check
\* fail with StaleArtifact.
C4_EveryEditIsStale ==
    EditedThenChecked => (last.err = "StaleArtifact" /\ last.exit # 0)

\* C4, amended: after a successful --write and a change of one source record
\* that leaves it valid, --check fails with StaleArtifact (exit 1, artifact
\* untouched) exactly when the record's normalized form changed; when the
\* change is one that normalization erases, --check exits 0.
C4_StaleIffNormalFormChanged ==
    EditedThenChecked =>
        /\ NormalForm(edit.old) # NormalForm(store[edit.path])
              => (last.err = "StaleArtifact" /\ last.exit = 1 /\ artifact = pre)
        /\ NormalForm(edit.old) = NormalForm(store[edit.path])
              => (last.err = "none" /\ last.exit = 0)
        /\ last.err = "StaleArtifact" <=> last.text # prev.text

C4_Witness ==
    /\ EditedThenChecked
    /\ edit.old # store[edit.path]
    /\ NormalForm(edit.old) # NormalForm(store[edit.path])
    /\ last.err = "StaleArtifact"
    /\ artifact = File(prev.text)

\* a source file loads, validates and normalizes under the current metadata
LoadsOk(p) ==
    /\ store[p].kind = "object"
    /\ IF cfg.variant = "skill"
       THEN validateSkill(store[p], p, Prop(meta.obj, "id")).ok
       ELSE validateCompetency(store[p], p, Prop(meta.obj, "@id")).ok

\* C5: an invocation that ends with an error leaves the artifact file as it
\* was (and does not create it); --check never touches it; the file is
\* written only by a --write whose compile succeeded, that is after the
\* metadata and every record file loaded and validated.
C5_NoWriteOnFailure ==
    last.mode # "none" =>
        /\ last.exit # 0 => (artifact = pre /\ ~last.wrote)
        /\ ~last.compiledOk => (last.exit # 0 /\ artifact = pre)
        /\ last.mode = "check" => artifact = pre
        /\ last.wrote => (last.mode = "write" /\ last.exit = 0 /\ last.compiledOk)
        /\ (last.wrote /\ ~changed) =>
              /\ ValidMeta(cfg.variant, meta)
              /\ Matching(store) # {}
              /\ \A p \in Matching(store) : LoadsOk(p)

C5_Witness ==
    /\ last.mode = "write"
    /\ last.err = "MissingField"
    /\ last.exit = 1
    /\ pre = File("junk")
    /\ artifact = pre
    /\ \E p \in Matching(store) : LoadsOk(p)

\* a skill source file that is valid in everything but its membership: it
\* names a collection, and not the one of the current metadata
Mismatched(p) ==
    /\ store[p].kind = "object"
    /\ HasKey(store[p].obj, "id")
    /\ \E key \in {"type", "@type"} : Prop(store[p].obj, key) = Str(RSD)
    /\ HasKey(store[p].obj, "isMemberOf")
    /\ Prop(store[p].obj, "isMemberOf") # Prop(meta.obj, "id")

\* C6: in the skills tool, under valid metadata, a record that is otherwise
\* valid and whose isMemberOf differs from the metadata id makes the run fail
\* and write nothing; the failure reported is MembershipMismatch on such a
\* record when no file before it in path order is invalid for another
\* reason; and MembershipMismatch is never reported on a record whose
\* isMemberOf is absent or equal to the metadata id.
C6_MembershipEnforced ==
    (Ran /\ cfg.variant = "skill" /\ ValidMeta("skill", meta)) =>
        /\ (\E p \in Matching(store) : Mismatched(p))
              => (~last.compiledOk /\ last.exit # 0 /\ artifact = pre /\ ~last.wrote)
        /\ ((\E p \in Matching(store) : Mismatched(p))
            /\ (\A p \in Matching(store) : Mismatched(p) \/ LoadsOk(p)))
              => (last.err = "MembershipMismatch" /\ last.path \in Matching(store)
                  /\ Mismatched(last.path))
        /\ last.err = "MembershipMismatch"
              => (last.path \in Matching(store) /\ Mismatched(last.path))

C6_Witness ==
    /\ Ran /\ cfg.variant = "skill"
    /\ last.mode = "write"
    /\ last.err = "MembershipMismatch"
    /\ artifact = pre
    /\ Mismatched(last.path)
    /\ \E p \in Matching(store) : LoadsOk(p) /\ HasKey(store[p].obj, "isMemberOf")

\* lower(x) <= lower(y) in the collation order
LowerLeq(x, y) == CollationRank(toLowerCase(x)) <= CollationRank(toLowerCase(y))

\* r1 may stand before r2 when key1, key2 are their sort keys and id1, id2
\* their primary identifiers, as strings
InOrder(key1, id1, key2, id2) ==
    /\ LowerLeq(key1, key2)
    /\ toLowerCase(key1) = toLowerCase(key2) => LowerLeq(id1, id2)

\* the primary identifier of a record, as a string
IdOf(rec) == StringOf(Prop(rec, IdKey(cfg.variant)))

\* the sort key of a record, as a string: the field --sort-by names for a
\* skill; for a competency the en-US entry of ceterms:name for "name", and
\* @id for "id"
KeyOf(rec) ==
    IF cfg.variant = "skill" THEN StringOf(Prop(rec, cfg.sortBy))
    ELSE IF cfg.sortBy = "name" THEN StringOf(enUSName(rec))
    ELSE StringOf(Prop(rec, "@id"))

\* C7 as stated: in every compiled output, records are in ascending order of
\* the lower-cased record field that --sort-by names ("" when absent), and
\* records with equal keys in ascending order of the lower-cased identifier.
C7_SortedByNamedField ==
    (Ran /\ last.compiledOk) =>
        \A i, j \in 1..Len(LastRecords) :
            i < j => InOrder(StringOf(Prop(LastRecords[i], cfg.sortBy)), IdOf(LastRecords[i]),
                             StringOf(Prop(LastRecords[j], cfg.sortBy)), IdOf(LastRecords[j]))

\* C7, amended: the same order, on the key the tool takes: the --sort-by
\* field for skills; for competencies ceterms:name["en-US"] under
\* --sort-by name and @id under --sort-by id.
C7_SortedByKey ==
    (Ran /\ last.compiledOk) =>
        \A i, j \in 1..Len(LastRecords) :
            i < j => InOrder(KeyOf(LastRecords[i]), IdOf(LastRecords[i]),
                             KeyOf(LastRecords[j]), IdOf(LastRecords[j]))

C7_Witness ==
    /\ Ran /\ last.compiledOk
    /\ cfg.sortBy = "skillName"
    /\ \E i, j \in 1..Len(LastRecords) :
          /\ i < j
          /\ KeyOf(LastRecords[i]) # KeyOf(LastRecords[j])
          /\ toLowerCase(KeyOf(LastRecords[i])) = toLowerCase(KeyOf(LastRecords[j]))
          /\ IdOf(LastRecords[i]) # IdOf(LastRecords[j])
    /\ store["a.json"].kind = "object" /\ Prop(store["a.json"].obj, "id") = Str("b")

\* out is the source record src with the defaults of the metadata applied:
\* the source fields as they are and in their order, then isMemberOf = the
\* metadata id if the source has none, then author = the metadata author if
\* the source has none, and nothing else
Defaulted(src, out) ==
    /\ Len(out) >= Len(src)
    /\ SubSeq(out, 1, Len(src)) = src
    /\ \A key \in {"author", "isMemberOf"} : HasKey(out, key)
    /\ ~HasKey(src, "author") => Prop(out, "author") = Prop(meta.obj, "author")
    /\ ~HasKey(src, "isMemberOf") => Prop(out, "isMemberOf") = Prop(meta.obj, "id")
    /\ \A i \in 1..Len(out) : HasKey(src, out[i].k) \/ out[i].k \in {"author", "isMemberOf"}
    /\ \A i, j \in 1..Len(out) : i # j => out[i].k # out[j].k

\* C8: the records of a compiled skills collection are, one for one, the
\* source records with the defaults applied: author and isMemberOf of the
\* metadata where the source omits them, the source's own values where it
\* has them, every other field as in the source.
C8_DefaultsApplied ==
    (Ran /\ last.compiledOk /\ cfg.variant = "skill") =>
        \E from \in [1..Len(LastRecords) -> Matching(store)] :
            /\ \A i, j \in 1..Len(LastRecords) : i # j => from[i] # from[j]
            /\ Len(LastRecords) = Cardinality(Matching(store))
            /\ \A i \in 1..Len(LastRecords) : Defaulted(store[from[i]].obj, LastRecords[i])

C8_Witness ==
    /\ Ran /\ last.compiledOk /\ cfg.variant = "skill"
    /\ \E i, j \in 1..Len(LastRecords) :
          /\ Prop(LastRecords[i], "author") = Str("own")
          /\ Prop(LastRecords[i], "isMemberOf") = Str("c2")
          /\ Prop(LastRecords[j], "author") = Prop(meta.obj, "author")
          /\ Prop(LastRecords[j], "isMemberOf") = Prop(meta.obj, "id")
    /\ \E p \in Matching(store) : ~HasKey(store[p].obj, "author") /\ ~HasKey(store[p].obj, "isMemberOf")

\* C9: under metadata that loads and validates, a run on a records root that
\* does not exist fails with MissingDirectory, and a run on a root that
\* holds no file whose name ends in .json (in any letter case) fails with
\* EmptyCollection; both exit non-zero and leave the artifact as it was; no
\* compiled collection has an empty record array.
C9_ScannerRejects ==
    Ran =>
        /\ (ValidMeta(cfg.variant, meta) /\ ~dirExists)
              => (last.err = "MissingDirectory" /\ last.exit # 0 /\ artifact = pre /\ ~last.wrote)
        /\ (ValidMeta(cfg.variant, meta) /\ dirExists
            /\ \A p \in Paths : store[p].kind = "absent" \/ ~endsWithJson(nameLower(entName(p))))
              => (last.err = "EmptyCollection" /\ last.exit # 0 /\ artifact = pre /\ ~last.wrote)
        /\ last.compiledOk => Len(LastRecords) > 0

C9_Witness ==
    /\ Ran /\ dirExists
    /\ store[OtherPath] = Readme
    /\ last.mode = "write"
    /\ last.err = "EmptyCollection"
    /\ last.exit = 1
    /\ pre = File("junk") /\ artifact = pre

\* C10: whenever compile succeeds in a --write run, the run exits 0, the
\* artifact file then holds exactly the compiled text and the path written is
\* reported on standard output, whatever the artifact was before (missing,
\* other content, or existing but unreadable).
C10_WriteOverwrites ==
    (last.mode = "write" /\ last.compiledOk) =>
        (artifact = File(last.text) /\ last.stdout = "WROTE: out" /\ last.exit = 0)

\* what --check compares the compiled text with: the content of the artifact
\* file as the last invocation found it, the empty text when there was none
OldContent == IF pre.st = "missing" THEN "" ELSE pre.text

\* C11: when compile succeeds in --check mode on an artifact that is absent
\* or readable, the run exits 0 exactly when the artifact content equals
\* the compiled text and fails with StaleArtifact otherwise; a missing
\* artifact counts as empty content (so it is stale, never a read error);
\* the artifact is left as it was.
C11_CheckComparesText ==
    (last.mode = "check" /\ last.compiledOk /\ pre.st # "unreadable") =>
        /\ last.exit = 0 <=> OldContent = last.text
        /\ OldContent = last.text => (last.err = "none" /\ last.stdout = "OK")
        /\ OldContent # last.text
              => (last.err = "StaleArtifact" /\ last.path = "out" /\ last.exit = 1)
        /\ pre.st = "missing" => last.err = "StaleArtifact"
        /\ artifact = pre

C11_Witness ==
    /\ last.mode = "check" /\ last.compiledOk
    /\ pre.st = "missing"
    /\ last.err = "StaleArtifact"
    /\ artifact = Missing

\* the tokens of the last argument list
Tokens == {argv[i] : i \in 1..Len(argv)}

\* C12: an invocation whose arguments are mode flags only, and name neither
\* mode or both --write and --check (in either order), fails with
\* InvalidArgument and a non-zero exit before anything is compiled or
\* written.
C12_ExactlyOneMode ==
    (runs > 0 /\ Tokens \subseteq {"--write", "--check"} /\ Cardinality(Tokens) # 1) =>
        /\ last.err = "InvalidArgument"
        /\ last.exit # 0
        /\ ~last.compiledOk
        /\ artifact = pre

\* the spellings of the type tag a record has
TagKeys(rec) == {key \in {"type", "@type"} : HasKey(rec, key)}

\* the run failed on the record file a.json with one of these errors
FailedOnFirst(errs) == last.path = "a.json" /\ last.err \in errs

\* C13: under valid skills metadata, for a record file that holds an object
\* with `id` and its type tag under at most one spelling: with no tag the
\* run fails on it with MissingField; with a tag whose value is not
\* "RichSkillDescriptor" it fails on it with TypeMismatch; with a tag equal
\* to "RichSkillDescriptor" it fails on it with neither.
C13_TypeTagChecked ==
    (Ran /\ cfg.variant = "skill" /\ ValidMeta("skill", meta)
     /\ store["a.json"].kind = "object" /\ HasKey(store["a.json"].obj, "id")
     /\ Cardinality(TagKeys(store["a.json"].obj)) <= 1) =>
        /\ TagKeys(store["a.json"].obj) = {} => FailedOnFirst({"MissingField"})
        /\ \A key \in TagKeys(store["a.json"].obj) :
              IF Prop(store["a.json"].obj, key) = Str(RSD)
              THEN ~FailedOnFirst({"MissingField", "TypeMismatch"})
              ELSE FailedOnFirst({"TypeMismatch"})

\* the entries of the last compiled collection but its last one, as key and
\* value
PlainFields ==
    AsSeq([i \in 1..(Len(last.compiled) - 1) |->
              Fld(last.compiled[i].k, EntryValue(last.compiled[i]))])

\* C14: the top-level fields of every compiled collection are the metadata
\* fields, with their values and in their order, followed by the record
\* array as the last field; a metadata field with the name of the record
\* array is overwritten by it.
C14_RecordArrayLast ==
    (Ran /\ last.compiledOk) =>
        /\ last.compiled[Len(last.compiled)].arr
        /\ last.compiled[Len(last.compiled)].k = ArrayKey(cfg.variant)
        /\ \A i \in 1..(Len(last.compiled) - 1) : ~last.compiled[i].arr
        /\ PlainFields = Without(meta.obj, ArrayKey(cfg.variant))

\* the errors the record validators report
ValidationErrors == {"MalformedRecord", "MissingField", "TypeMismatch", "MembershipMismatch"}

\* C15: in the competencies tool, under valid metadata, the first record file
\* passes validation exactly when it holds an object that has `@id` and
\* whose `@type` is "ceterms:Competency"; an object with `@id` and no `@type`
\* key (its tag under `type` or nowhere) fails with MissingField, one whose
\* `@type` has another value fails with TypeMismatch; a failure aborts the
\* run; and MembershipMismatch is never reported.
C15_CompetencyTypeStrict ==
    (Ran /\ cfg.variant = "competency" /\ ValidMeta("competency", meta)
     /\ store["a.json"].kind \in {"object", "array"}) =>
        /\ ~FailedOnFirst(ValidationErrors)
              <=> /\ store["a.json"].kind = "object"
                  /\ HasKey(store["a.json"].obj, "@id")
                  /\ Prop(store["a.json"].obj, "@type") = Str(CC)
        /\ (store["a.json"].kind = "object" /\ HasKey(store["a.json"].obj, "@id")) =>
              IF ~HasKey(store["a.json"].obj, "@type")
              THEN FailedOnFirst({"MissingField"})
              ELSE Prop(store["a.json"].obj, "@type") # Str(CC)
                      => FailedOnFirst({"TypeMismatch"})
        /\ FailedOnFirst(ValidationErrors) => (~last.compiledOk /\ last.exit # 0)
        /\ last.err # "MembershipMismatch"

\* the record files the last invocation read, in the order it read them
RecordReads == SelectSeq(io, LAMBDA step : step.op = "read" /\ step.path \in Paths)

\* the record files that stand before p in sorted-path order
Before(p) == {q \in Matching(store) : comparePaths(q, p) < 0}

\* C16: under valid metadata and a records root with record files, the files
\* an invocation reads are read one at a time in ascending path order, and
\* they are exactly the files up to and including the first one, in that
\* order, that does not load or validate; if there is such a file the run
\* fails, its diagnostic names that file, and that file is the last one
\* read; if there is none every file is read and the compile succeeds.
C16_FailFastInPathOrder ==
    (Ran /\ ValidMeta(cfg.variant, meta) /\ dirExists /\ Matching(store) # {}) =>
        /\ \A i, j \in 1..Len(RecordReads) :
              i < j => comparePaths(RecordReads[i].path, RecordReads[j].path) < 0
        /\ \A p \in Paths :
              (\E i \in 1..Len(RecordReads) : RecordReads[i].path = p)
                 <=> (p \in Matching(store) /\ \A q \in Before(p) : LoadsOk(q))
        /\ IF \E p \in Matching(store) : ~LoadsOk(p)
           THEN /\ last.exit = 1 /\ ~last.compiledOk
                /\ last.path \in Matching(store)
                /\ ~LoadsOk(last.path)
                /\ \A q \in Before(last.path) : LoadsOk(q)
                /\ RecordReads[Len(RecordReads)].path = last.path
           ELSE last.compiledOk

\* two record files are invalid for different reasons; the run names the
\* first in path order and has read only that one
C16_Witness ==
    /\ Ran /\ ValidMeta(cfg.variant, meta) /\ dirExists
    /\ Cardinality(Matching(store)) = 2
    /\ \A p \in Matching(store) : ~LoadsOk(p)
    /\ Mismatched("a.json") /\ ~HasKey(store["sub/B.JSON"].obj, "id")
    /\ last.path = "a.json" /\ last.err = "MembershipMismatch"
    /\ RecordReads = <<Step("read", "a.json")>>

\* the key of the metadata type tag and the value it must have
MetaTagKey(variant) == IF variant = "skill" THEN "type" ELSE "@type"
MetaTag(variant) == IF variant = "skill" THEN "Collection" ELSE "ceterms:Collection"

\* the metadata file parses, and what it holds is not an object, or lacks a
\* required key, or has another type tag
BadMeta ==
    /\ meta.kind \in {"object", "array"}
    /\ \/ meta.kind # "object"
       \/ \E key \in RequiredKeys(cfg.variant) : ~HasKey(meta.obj, key)
       \/ Prop(meta.obj, MetaTagKey(cfg.variant)) # Str(MetaTag(cfg.variant))

\* C17: when the metadata file parses to something that is not an object, or
\* to an object that lacks a required key or has the wrong type tag, the run
\* fails with InvalidMetadata, whatever the records root is (missing, empty,
\* or holding invalid records), and the metadata file is the only thing it
\* has read: no scan of the records root, no record file, no artifact;
\* InvalidMetadata is reported for no other metadata.
C17_MetadataValidatedFirst ==
    Ran =>
        /\ BadMeta => /\ last.err = "InvalidMetadata"
                      /\ last.exit = 1 /\ ~last.compiledOk
                      /\ io = <<Step("read", "meta")>>
                      /\ artifact = pre
        /\ last.err = "InvalidMetadata" => BadMeta

\* metadata without a required key over a records root that does not exist
C17_Witness ==
    /\ Ran
    /\ meta.kind = "object"
    /\ \E key \in RequiredKeys(cfg.variant) : ~HasKey(meta.obj, key)
    /\ ~dirExists
    /\ last.err = "InvalidMetadata"
    /\ io = <<Step("read", "meta")>>

\* C18: an invocation leaves the metadata file and every file of the records
\* root as they were; a --check invocation leaves the artifact file as it
\* was; and when an invocation changes the artifact file it is a --write
\* that exited 0 and the file then holds the text it compiled.
C18_OnlyArtifactWritten ==
    [][runs' = runs + 1 =>
          /\ meta' = meta
          /\ store' = store /\ dirExists' = dirExists
          /\ last'.mode = "check" => artifact' = artifact
          /\ artifact' # artifact =>
                (last'.mode = "write" /\ last'.exit = 0 /\ artifact' = File(last'.text))]_vars

HelpFlags == {"--help", "-h"}
ModeFlags == {"--write", "--check"}
ValueOptions == {"--meta", DirOption(cfg.variant), "--out", "--sort-by"}

\* token i of the argument list is one the scan looks at as an option: every
\* token before it is a mode flag, or a value option followed by its value
RECURSIVE ScanReaches(_, _)
ScanReaches(av, i) ==
    \/ i = 1
    \/ i >= 2 /\ av[i - 1] \in ModeFlags /\ ScanReaches(av, i - 1)
    \/ i >= 3 /\ av[i - 2] \in ValueOptions /\ ScanReaches(av, i - 2)

\* the scan of the argument list comes to a help flag
HelpReached(av) == \E i \in 1..Len(av) : av[i] \in HelpFlags /\ ScanReaches(av, i)

\* C19 as stated: an invocation with --help or -h among its arguments prints
\* the usage text, exits 0 and does no file operation, whatever the other
\* arguments are.
C19_HelpAlways ==
    (runs > 0 /\ Tokens \cap HelpFlags # {}) =>
        /\ last.exit = 0 /\ last.stdout = "USAGE"
        /\ io = <<>> /\ artifact = pre /\ ~last.compiledOk

\* C19, amended: an invocation prints the usage text exactly when the scan of
\* its arguments comes to --help or -h, that is when every token before the
\* flag is a mode flag or a value option with its value; it then exits 0 and
\* does no file operation, whatever follows the flag and whether or not a
\* mode was given.
C19_HelpWhenReached ==
    runs > 0 =>
        /\ HelpReached(argv) =>
              /\ last.exit = 0 /\ last.stdout = "USAGE"
              /\ io = <<>> /\ artifact = pre /\ ~last.compiledOk
        /\ last.stdout = "USAGE" => HelpReached(argv)

\* -h before an unknown argument and without a mode: usage, exit 0, over an
\* artifact that exists
C19_Witness ==
    /\ argv = <<"-h", "--bogus">>
    /\ last.exit = 0 /\ last.stdout = "USAGE"
    /\ io = <<>>
    /\ pre = File("junk") /\ artifact = pre

====
